---- MODULE Spec2Model ----
(***************************************************************************)
(* Model of the posts REST API (src/posts/api.py): five Flask handlers     *)
(* over one table of posts reached through one shared SQLAlchemy session.  *)
(* Text (titles, bodies, the *_like parameters) is a sequence of           *)
(* one-character strings, so that substring and LIKE matching are          *)
(* computed, not assumed.  A request is handled in one step (pc "idle" to  *)
(* "done"), its response is sent in the next (back to "idle").             *)
(***************************************************************************)
EXTENDS Integers, Sequences, FiniteSets, TLC

\* ------------------------------------------------------------------ bounds
MaxId == 2          \* ids the store hands out: 1..MaxId
NumTitles == 4      \* how many texts of TextOrder are drawn as title / title_like
NumBodies == 2      \* how many texts of TextOrder are drawn as body / body_like

\* The texts over the characters "a" and "_", shortest first.  "_" is a
\* character that SQL LIKE reads as a wildcard, "a" is an ordinary one.
TextOrder ==
    << <<>>, <<"a">>, <<"_">>, <<"_", "a">>, <<"a", "_">>, <<"a", "a">>, <<"_", "_">> >>

TitleTexts == {TextOrder[i] : i \in 1..NumTitles}
BodyTexts == {TextOrder[i] : i \in 1..NumBodies}
Ids == 1..MaxId

VARIABLES
    posts,          \* committed rows of the posts table: records [id, title, body]
    last_id,        \* last id the store assigned
    pending,        \* unit of work of the shared session, not yet committed
    pc,             \* "idle": waiting for a request; "done": a response was built
    req,            \* the request being handled
    resp,           \* the response built for it
    commit_result   \* outcome of session.commit() in this request: "none", "ok", "failed"

vars == <<posts, last_id, pending, pc, req, resp, commit_result>>

\* ------------------------------------------------------------ JSON values
\* A JSON value of a request body field.  type "absent": the key is missing.
Str(t) == [type |-> "string", str |-> t]
Num == [type |-> "number", str |-> <<>>]       \* the number 1
Null == [type |-> "null", str |-> <<>>]
Absent == [type |-> "absent", str |-> <<>>]

\* request.json: a JSON object with (possibly missing) keys title and body,
\* or a JSON value that is not an object.
Object(t, b) == [type |-> "object", title |-> t, body |-> b]
NonObject(ty) == [type |-> ty, title |-> Absent, body |-> Absent]
NoData == NonObject("none")

TitleVals == {Absent, Num, Null} \cup {Str(t) : t \in TitleTexts}
BodyVals == {Absent, Num, Null} \cup {Str(t) : t \in BodyTexts}
JsonBodies == {Object(t, b) : t \in TitleVals, b \in BodyVals}
                \cup {NonObject("array"), NonObject("null")}

\* request.args.get(name): None when the parameter is not given
NoArg == [given |-> FALSE, val |-> <<>>]
Arg(t) == [given |-> TRUE, val |-> t]
TitleArgs == {NoArg} \cup {Arg(t) : t \in TitleTexts}
BodyArgs == {NoArg} \cup {Arg(t) : t \in BodyTexts}

Request(endpoint, id, accept, mimetype, data, title_like, body_like) ==
    [endpoint |-> endpoint, id |-> id, accept |-> accept, mimetype |-> mimetype,
     data |-> data, title_like |-> title_like, body_like |-> body_like]

NoRequest == Request("none", 0, FALSE, FALSE, NoData, NoArg, NoArg)

\* Response(data, status, headers): shape names the JSON shape of the body,
\* content holds the serialized posts of the body in order.
Response(status, shape, message, content, location) ==
    [status |-> status, shape |-> shape, message |-> message,
     content |-> content, location |-> location]

NoResponse == Response(0, "none", "", <<>>, "")

\* ------------------------------------------------------------ post_schema
post_schema ==
    [properties |-> [title |-> [type |-> "string"], body |-> [type |-> "string"]],
     required |-> {"title", "body"}]

\* repr of a JSON value in a jsonschema error message
Repr(v) == IF v.type = "number" THEN "1"
           ELSE IF v.type = "null" THEN "None"
           ELSE "'...'"

Field(data, k) == IF k = "title" THEN data.title ELSE data.body

\* Mutant: a validator that also demands non-empty strings (minLength 1)
ValidationErrorsNonEmpty(data, schema) ==
    IF data.type # "object" THEN {}
    ELSE {Repr(Field(data, k)) \o " is not of type '" \o schema.properties[k].type \o "'" :
             k \in {f \in DOMAIN schema.properties :
                       /\ Field(data, f).type # "absent"
                       /\ Field(data, f).type # schema.properties[f].type}}
         \cup {"'' is too short" :
             k \in {f \in DOMAIN schema.properties : Field(data, f) = Str(<<>>)}}
         \cup {"'" \o k \o "' is a required property" :
             k \in {f \in schema.required : Field(data, f).type = "absent"}}

\* Mutant: a validator that checks the required keys but not their types
ValidationErrorsNoType(data, schema) ==
    IF data.type # "object" THEN {}
    ELSE {"'" \o k \o "' is a required property" :
             k \in {f \in schema.required : Field(data, f).type = "absent"}}

\* jsonschema.validate(data, schema): the messages of the errors it can raise.
\* "properties" and "required" constrain objects only: an instance that is
\* not an object satisfies both.
ValidationErrors(data, schema) ==
    IF data.type # "object" THEN {}
    ELSE {Repr(Field(data, k)) \o " is not of type '" \o schema.properties[k].type \o "'" :
             k \in {f \in DOMAIN schema.properties :
                       /\ Field(data, f).type # "absent"
                       /\ Field(data, f).type # schema.properties[f].type}}
         \cup {"'" \o k \o "' is a required property" :
             k \in {f \in schema.required : Field(data, f).type = "absent"}}

\* ------------------------------------------------- the store and the session
\* a row of models.Post; title and body hold the JSON values they were given
Post(id, title, body) == [id |-> id, title |-> title, body |-> body]

\* models.Post.as_dictionary(): {"id": ..., "title": ..., "body": ...}
as_dictionary(post) == [id |-> post.id, title |-> post.title, body |-> post.body]

Db(rows, last) == [posts |-> rows, last_id |-> last]

\* changes recorded in the session's unit of work
AddOp(title, body) == [op |-> "add", id |-> 0, title |-> title, body |-> body]
SetTitleOp(id, title) == [op |-> "set_title", id |-> id, title |-> title, body |-> Absent]
SetBodyOp(id, body) == [op |-> "set_body", id |-> id, title |-> Absent, body |-> body]
DeleteOp(id) == [op |-> "delete", id |-> id, title |-> Absent, body |-> Absent]

\* one INSERT / UPDATE / DELETE; the store assigns the id of an inserted row
ApplyOp(db, o) ==
    CASE o.op = "add" ->
            Db(db.posts \cup {Post(db.last_id + 1, o.title, o.body)}, db.last_id + 1)
      [] o.op = "set_title" ->
            Db({IF p.id = o.id THEN Post(p.id, o.title, p.body) ELSE p : p \in db.posts},
               db.last_id)
      [] o.op = "set_body" ->
            Db({IF p.id = o.id THEN Post(p.id, p.title, o.body) ELSE p : p \in db.posts},
               db.last_id)
      [] o.op = "delete" ->
            Db({p \in db.posts : p.id # o.id}, db.last_id)

RECURSIVE Flush(_, _)
Flush(db, ops) ==
    IF ops = <<>> THEN db ELSE Flush(ApplyOp(db, Head(ops)), Tail(ops))

\* session.commit(): flushes the unit of work and commits the transaction as
\* a whole, or rolls all of it back and raises
session_commit(db, ops, ok) ==
    IF ok THEN [db |-> Flush(db, ops), pending |-> <<>>, result |-> "ok"]
    ELSE [db |-> db, pending |-> <<>>, result |-> "failed"]

\* session.query(models.Post): the rows the session sees (it flushes first)
query(db, ops) == Flush(db, ops).posts

\* Query.get(id): the row with that primary key, if any
query_get(db, ops, id) == {p \in query(db, ops) : p.id = id}

\* SQL LIKE: "%" matches any run of characters, "_" any one character
RECURSIVE LikeMatch(_, _)
LikeMatch(pattern, s) ==
    IF pattern = <<>> THEN s = <<>>
    ELSE IF Head(pattern) = "%"
         THEN LikeMatch(Tail(pattern), s) \/ (s # <<>> /\ LikeMatch(pattern, Tail(s)))
    ELSE /\ s # <<>>
         /\ (Head(pattern) = "_" \/ Head(pattern) = Head(s))
         /\ LikeMatch(Tail(pattern), Tail(s))

\* Column.contains(other): column LIKE '%' || other || '%'
contains(column, other) == LikeMatch(<<"%">> \o other \o <<"%">>, column.str)

\* Query.order_by(models.Post.id): the rows as a list in ascending id order
RECURSIVE order_by_id(_)
order_by_id(rows) ==
    IF rows = {} THEN <<>>
    ELSE LET first == CHOOSE p \in rows : \A q \in rows : p.id <= q.id
         IN <<first>> \o order_by_id(rows \ {first})

\* truth value of request.args.get(name): None and "" are both false
Truthy(arg) == arg.given /\ arg.val # <<>>

\* ----------------------------------------------------------------- responses
\* url_for("post_get", id=id)
url_for_post_get(id) == "/api/posts/" \o ToString(id)

\* Mutant: the 404 message does not name the id asked for
NotFoundMessageNoId(id) == "Could not find post with id"

NotFoundMessage(id) == "Could not find post with id " \o ToString(id)

DeletedMessage(id) == "Post #" \o ToString(id) \o " successfully deleted"

UpdatedMessage(id) == "Post #" \o ToString(id) \o " successfully updated"

NotFound(id) == Response(404, "message", NotFoundMessage(id), <<>>, "")

\* an exception that leaves the handler: Flask answers 500
InternalServerError == Response(500, "error", "Internal Server Error", <<>>, "")

\* what a handler leaves behind: the store, the session and the response
Outcome(db, ops, response, result) ==
    [posts |-> db.posts, last_id |-> db.last_id, pending |-> ops,
     resp |-> response, commit_result |-> result]

\* ------------------------------------------------------------------ handlers
\* Each handler gives the set of outcomes it can end in; oks is the set of
\* results session.commit() may have (TRUE: it commits, FALSE: it raises).

\* decorators.accept / decorators.require
NotAcceptable ==
    Response(406, "message", "Request must accept application/json data", <<>>, "")

UnsupportedMediaType ==
    Response(415, "message", "Request must contain application/json data", <<>>, "")

\* data[k]: TypeError unless data is a dict, KeyError unless it has the key
Subscriptable(data) ==
    data.type = "object" /\ data.title.type # "absent" /\ data.body.type # "absent"

posts_get_handler(db, ops, title_like, body_like) ==
    LET all == query(db, ops)
        by_title == IF Truthy(title_like)
                    THEN {p \in all : contains(p.title, title_like.val)}
                    ELSE all
        by_body == IF Truthy(body_like)
                   THEN {p \in by_title : contains(p.body, body_like.val)}
                   ELSE by_title
        list == order_by_id(by_body)
        data == [i \in 1..Len(list) |-> as_dictionary(list[i])]
    IN {Outcome(db, ops, Response(200, "array", "", data, ""), "none")}

post_get_handler(db, ops, id) ==
    LET found == query_get(db, ops, id)
    IN IF found = {}
       THEN {Outcome(db, ops, NotFound(id), "none")}
       ELSE {Outcome(db, ops,
                     Response(200, "post", "", <<as_dictionary(p)>>, ""), "none") :
                p \in found}

\* Mutant: the handler commits without deleting the post
post_delete_handler_keep(db, ops, id, oks) ==
    LET found == query_get(db, ops, id)
    IN IF found = {}
       THEN {Outcome(db, ops, NotFound(id), "none")}
       ELSE {LET c == session_commit(db, ops, ok)
             IN Outcome(c.db, c.pending,
                        IF ok THEN Response(200, "message", DeletedMessage(id), <<>>, "")
                        ELSE InternalServerError,
                        c.result) :
                ok \in oks}

post_delete_handler(db, ops, id, oks) ==
    LET found == query_get(db, ops, id)
    IN IF found = {}
       THEN {Outcome(db, ops, NotFound(id), "none")}
       ELSE {LET c == session_commit(db, Append(ops, DeleteOp(id)), ok)
             IN Outcome(c.db, c.pending,
                        IF ok THEN Response(200, "message", DeletedMessage(id), <<>>, "")
                        ELSE InternalServerError,
                        c.result) :
                ok \in oks}

\* Mutant: the body is filled from the title
new_post_copy(data) == AddOp(data.title, data.title)

\* models.Post(title=data["title"], body=data["body"]); session.add(post)
new_post(data) == AddOp(data.title, data.body)

posts_post_handler(db, ops, data, oks) ==
    LET errors == ValidationErrors(data, post_schema)
    IN IF errors # {}
       THEN {Outcome(db, ops, Response(422, "message", m, <<>>, ""), "none") :
                m \in errors}
       ELSE IF ~Subscriptable(data)
       THEN {Outcome(db, ops, InternalServerError, "none")}
       ELSE {LET c == session_commit(db, Append(ops, new_post(data)), ok)
                 id == c.db.last_id
             IN Outcome(c.db, c.pending,
                        IF ok
                        THEN Response(201, "post", "",
                                      [i \in 1..1 |->
                                          as_dictionary(CHOOSE p \in c.db.posts : p.id = id)],
                                      url_for_post_get(id))
                        ELSE InternalServerError,
                        c.result) :
                ok \in oks}

\* Mutant: only the title is overwritten
update_post_title_only(id, data) == <<SetTitleOp(id, data.title)>>

\* post.title=data["title"]; post.body=data["body"]
update_post(id, data) == <<SetTitleOp(id, data.title), SetBodyOp(id, data.body)>>

\* Mutant: the existence of the post is checked before the body is validated
edit_post_handler_exists_first(db, ops, id, data, oks) ==
    LET errors == ValidationErrors(data, post_schema)
        found == query_get(db, ops, id)
    IN IF found = {}
       THEN {Outcome(db, ops, NotFound(id), "none")}
       ELSE IF errors # {}
       THEN {Outcome(db, ops, Response(422, "message", m, <<>>, ""), "none") :
                m \in errors}
       ELSE IF ~Subscriptable(data)
       THEN {Outcome(db, ops, InternalServerError, "none")}
       ELSE {LET c == session_commit(db, ops \o update_post(id, data), ok)
             IN Outcome(c.db, c.pending,
                        IF ok
                        THEN Response(200, "message+content", UpdatedMessage(id),
                                      [i \in 1..1 |->
                                          as_dictionary(CHOOSE p \in c.db.posts : p.id = id)],
                                      url_for_post_get(id))
                        ELSE InternalServerError,
                        c.result) :
                ok \in oks}

\* Mutant: the title is committed on its own before the body is assigned
edit_post_handler_two_commits(db, ops, id, data, oks) ==
    LET errors == ValidationErrors(data, post_schema)
        found == query_get(db, ops, id)
    IN IF errors # {}
       THEN {Outcome(db, ops, Response(422, "message", m, <<>>, ""), "none") :
                m \in errors}
       ELSE IF found = {}
       THEN {Outcome(db, ops, NotFound(id), "none")}
       ELSE IF ~Subscriptable(data)
       THEN {Outcome(db, ops, InternalServerError, "none")}
       ELSE {LET c1 == session_commit(db, Append(ops, SetTitleOp(id, data.title)), TRUE)
                 c == session_commit(c1.db, Append(c1.pending, SetBodyOp(id, data.body)), ok)
             IN Outcome(c.db, c.pending,
                        IF ok
                        THEN Response(200, "message+content", UpdatedMessage(id),
                                      [i \in 1..1 |->
                                          as_dictionary(CHOOSE p \in c.db.posts : p.id = id)],
                                      url_for_post_get(id))
                        ELSE InternalServerError,
                        c.result) :
                ok \in oks}

edit_post_handler(db, ops, id, data, oks) ==
    LET errors == ValidationErrors(data, post_schema)
        found == query_get(db, ops, id)
    IN IF errors # {}
       THEN {Outcome(db, ops, Response(422, "message", m, <<>>, ""), "none") :
                m \in errors}
       ELSE IF found = {}
       THEN {Outcome(db, ops, NotFound(id), "none")}
       ELSE IF ~Subscriptable(data)
       THEN {Outcome(db, ops, InternalServerError, "none")}
       ELSE {LET c == session_commit(db, ops \o update_post(id, data), ok)
             IN Outcome(c.db, c.pending,
                        IF ok
                        THEN Response(200, "message+content", UpdatedMessage(id),
                                      [i \in 1..1 |->
                                          as_dictionary(CHOOSE p \in c.db.posts : p.id = id)],
                                      url_for_post_get(id))
                        ELSE InternalServerError,
                        c.result) :
                ok \in oks}

\* ------------------------------------------------------------------- actions
Init ==
    /\ posts = {}
    /\ last_id = 0
    /\ pending = <<>>
    /\ pc = "idle"
    /\ req = NoRequest
    /\ resp = NoResponse
    /\ commit_result = "none"

\* the handler returns: the state it leaves and the response it built
Return(r, out) ==
    /\ pc' = "done"
    /\ req' = r
    /\ resp' = out.resp
    /\ posts' = out.posts
    /\ last_id' = out.last_id
    /\ pending' = out.pending
    /\ commit_result' = out.commit_result

\* a decorator answers before the handler runs: nothing of the request is read
Refuse(r, response) ==
    /\ pc' = "done"
    /\ req' = r
    /\ resp' = response
    /\ commit_result' = "none"
    /\ UNCHANGED <<posts, last_id, pending>>

\* GET /api/posts
posts_get ==
    /\ pc = "idle"
    /\ \E accept \in BOOLEAN :
          IF ~accept
          THEN Refuse(Request("posts_get", 0, accept, FALSE, NoData, NoArg, NoArg),
                      NotAcceptable)
          ELSE \E title_like \in TitleArgs, body_like \in BodyArgs :
                  \E out \in posts_get_handler(Db(posts, last_id), pending,
                                               title_like, body_like) :
                     Return(Request("posts_get", 0, accept, FALSE, NoData,
                                    title_like, body_like), out)

\* GET /api/posts/<int:id>
post_get ==
    /\ pc = "idle"
    /\ \E accept \in BOOLEAN, id \in Ids :
          IF ~accept
          THEN Refuse(Request("post_get", id, accept, FALSE, NoData, NoArg, NoArg),
                      NotAcceptable)
          ELSE \E out \in post_get_handler(Db(posts, last_id), pending, id) :
                  Return(Request("post_get", id, accept, FALSE, NoData, NoArg, NoArg), out)

\* DELETE /api/posts/<int:id>
post_delete(oks) ==
    /\ pc = "idle"
    /\ \E accept \in BOOLEAN, id \in Ids :
          IF ~accept
          THEN Refuse(Request("post_delete", id, accept, FALSE, NoData, NoArg, NoArg),
                      NotAcceptable)
          ELSE \E out \in post_delete_handler(Db(posts, last_id), pending, id, oks) :
                  Return(Request("post_delete", id, accept, FALSE, NoData, NoArg, NoArg),
                         out)

\* POST /api/posts; a post is created only while the store has ids left to
\* assign (last_id < MaxId), any other request is always answered
posts_post(oks) ==
    /\ pc = "idle"
    /\ \E accept \in BOOLEAN, mimetype \in BOOLEAN :
          IF ~accept
          THEN Refuse(Request("posts_post", 0, accept, mimetype, NoData, NoArg, NoArg),
                      NotAcceptable)
          ELSE IF ~mimetype
          THEN Refuse(Request("posts_post", 0, accept, mimetype, NoData, NoArg, NoArg),
                      UnsupportedMediaType)
          ELSE \E data \in JsonBodies :
                  /\ (Subscriptable(data) /\ ValidationErrors(data, post_schema) = {})
                        => last_id < MaxId
                  /\ \E out \in posts_post_handler(Db(posts, last_id), pending, data, oks) :
                        Return(Request("posts_post", 0, accept, mimetype, data,
                                       NoArg, NoArg), out)

\* PUT /api/posts/<int:id>
edit_post(oks) ==
    /\ pc = "idle"
    /\ \E accept \in BOOLEAN, mimetype \in BOOLEAN, id \in Ids :
          IF ~accept
          THEN Refuse(Request("edit_post", id, accept, mimetype, NoData, NoArg, NoArg),
                      NotAcceptable)
          ELSE IF ~mimetype
          THEN Refuse(Request("edit_post", id, accept, mimetype, NoData, NoArg, NoArg),
                      UnsupportedMediaType)
          ELSE \E data \in JsonBodies :
                  \E out \in edit_post_handler(Db(posts, last_id), pending, id, data, oks) :
                     Return(Request("edit_post", id, accept, mimetype, data,
                                    NoArg, NoArg), out)

\* the response is sent; the request context is gone
Respond ==
    /\ pc = "done"
    /\ pc' = "idle"
    /\ req' = NoRequest
    /\ resp' = NoResponse
    /\ commit_result' = "none"
    /\ UNCHANGED <<posts, last_id, pending>>

\* every commit succeeds
Next ==
    \/ posts_get
    \/ post_get
    \/ post_delete({TRUE})
    \/ posts_post({TRUE})
    \/ edit_post({TRUE})
    \/ Respond

Spec == Init /\ [][Next]_vars

\* a commit may fail
NextFail ==
    \/ posts_get
    \/ post_get
    \/ post_delete(BOOLEAN)
    \/ posts_post(BOOLEAN)
    \/ edit_post(BOOLEAN)
    \/ Respond

SpecFail == Init /\ [][NextFail]_vars

\* -------------------------------------------------------------------- claims
\* a step in which the handler of endpoint e ran (the decorators let it in)
Handled(e) ==
    /\ pc = "idle"
    /\ pc' = "done"
    /\ req'.endpoint = e
    /\ req'.accept
    /\ e \in {"posts_post", "edit_post"} => req'.mimetype

\* the JSON body is an object whose title and body are both strings
HasStrings(data) ==
    data.type = "object" /\ data.title.type = "string" /\ data.body.type = "string"

\* the JSON body is an object that breaks post_schema
FailsSchema(data) ==
    /\ data.type = "object"
    /\ \/ data.title.type # "string"
       \/ data.body.type # "string"

StoredIds(rows) == {p.id : p \in rows}

StoreUnchanged == posts' = posts /\ last_id' = last_id /\ pending' = pending

\* the id that the route /api/posts/<int:id> reads from a URL
Resolves(url, id) == url = "/api/posts/" \o ToString(id)

\* what GET /api/posts/{id} answers in the state after the step
GetAfter(id) == {o.resp : o \in post_get_handler(Db(posts', last_id'), pending', id)}

\* what DELETE /api/posts/{id} answers in the state after the step
DeleteAfter(id) ==
    {o.resp : o \in post_delete_handler(Db(posts', last_id'), pending', id, {TRUE})}

IsSubstring(sub, s) ==
    \E i \in 0..(Len(s) - Len(sub)) : SubSeq(s, i + 1, i + Len(sub)) = sub

\* C1: a POST whose body has string title and body answers 201, adds exactly
\* one record with that title and body under an id no stored post had, answers
\* with that record and a Location that a GET resolves to the same record,
\* and leaves every other post as it was.
C1_PostCreates ==
    [][(Handled("posts_post") /\ HasStrings(req'.data)) =>
          /\ resp'.status = 201
          /\ resp'.shape = "post"
          /\ Len(resp'.content) = 1
          /\ LET rec == resp'.content[1]
             IN /\ rec.id \notin StoredIds(posts)
                /\ rec.title = req'.data.title
                /\ rec.body = req'.data.body
                /\ posts' = posts \cup {rec}
                /\ Cardinality(posts') = Cardinality(posts) + 1
                /\ Resolves(resp'.location, rec.id)
                /\ GetAfter(rec.id) = {Response(200, "post", "", <<rec>>, "")}]_vars

C1_Witness ==
    /\ pc = "done"
    /\ req.endpoint = "posts_post"
    /\ resp.status = 201
    /\ Cardinality(posts) = 2
    /\ \E p \in posts : <<p>> = resp.content /\ p.title.str # p.body.str

\* C2: a POST whose JSON body, object or not, lacks a string title or a string
\* body answers 422 with a message and changes nothing.
C2_InvalidPostIs422 ==
    [][(Handled("posts_post") /\ ~HasStrings(req'.data)) =>
          /\ resp'.status = 422
          /\ resp'.shape = "message"
          /\ StoreUnchanged]_vars

\* C3: GET and DELETE of an id that is not stored answer 404 with the message
\* "Could not find post with id {id}" and change nothing.
C3_MissingIs404 ==
    [][((Handled("post_get") \/ Handled("post_delete"))
            /\ req'.id \notin StoredIds(posts)) =>
          /\ resp'.status = 404
          /\ resp'.shape = "message"
          /\ resp'.message = "Could not find post with id " \o ToString(req'.id)
          /\ StoreUnchanged]_vars

C3_Witness ==
    /\ pc = "done"
    /\ req.endpoint = "post_delete"
    /\ resp.status = 404
    /\ req.id \notin StoredIds(posts)
    /\ posts # {}

\* C4: a PUT of a valid body to a stored id answers 200 with the update
\* message, the post and a Location for that id; a GET then returns the new
\* title and body under the same id; the stored ids and all other posts stay.
C4_PutReplaces ==
    [][(Handled("edit_post") /\ HasStrings(req'.data)
            /\ req'.id \in StoredIds(posts)) =>
          LET new == Post(req'.id, req'.data.title, req'.data.body)
          IN /\ resp'.status = 200
             /\ resp'.shape = "message+content"
             /\ resp'.message = "Post #" \o ToString(req'.id) \o " successfully updated"
             /\ resp'.content = <<new>>
             /\ Resolves(resp'.location, req'.id)
             /\ GetAfter(req'.id) = {Response(200, "post", "", <<new>>, "")}
             /\ StoredIds(posts') = StoredIds(posts)
             /\ {p \in posts' : p.id # req'.id} = {p \in posts : p.id # req'.id}
             /\ Cardinality(posts') = Cardinality(posts)]_vars

C4_Witness ==
    /\ pc = "done"
    /\ req.endpoint = "edit_post"
    /\ resp.status = 200
    /\ Cardinality(posts) = 2
    /\ req.data.title.str # req.data.body.str

\* C5: a DELETE of a stored id answers 200 with the deletion message and
\* removes exactly that record; a GET and a second DELETE of the id answer 404.
C5_DeleteRemoves ==
    [][(Handled("post_delete") /\ req'.id \in StoredIds(posts)) =>
          /\ resp'.status = 200
          /\ resp'.shape = "message"
          /\ resp'.message = "Post #" \o ToString(req'.id) \o " successfully deleted"
          /\ posts' = {p \in posts : p.id # req'.id}
          /\ Cardinality(posts') = Cardinality(posts) - 1
          /\ \A r \in GetAfter(req'.id) \cup DeleteAfter(req'.id) : r.status = 404]_vars

C5_Witness ==
    /\ pc = "done"
    /\ req.endpoint = "post_delete"
    /\ resp.status = 200
    /\ posts # {}

\* C6: GET /api/posts answers 200 with exactly the stored posts whose title
\* has title_like as a substring and whose body has body_like as a substring
\* (each when given), in strictly ascending id order, and changes nothing.
C6_ListFiltersBySubstring ==
    [][Handled("posts_get") =>
          LET matching == {p \in posts :
                              /\ req'.title_like.given =>
                                    IsSubstring(req'.title_like.val, p.title.str)
                              /\ req'.body_like.given =>
                                    IsSubstring(req'.body_like.val, p.body.str)}
              listed == resp'.content
          IN /\ resp'.status = 200
             /\ resp'.shape = "array"
             /\ {listed[i] : i \in 1..Len(listed)} = matching
             /\ \A i, j \in 1..Len(listed) : i < j => listed[i].id < listed[j].id
             /\ StoreUnchanged]_vars

C8_PersistedFieldsAreStrings ==
    \A p \in posts : p.title.type = "string" /\ p.body.type = "string"

C8_Witness ==
    /\ pc = "done"
    /\ req.endpoint = "edit_post"
    /\ req.data.title = Null
    /\ req.id \in StoredIds(posts)
    /\ resp.status = 422

\* C9 as stated: a POST or PUT with an empty title or body answers 422 and
\* changes nothing, and no persisted post has an empty title or body.
C9_EmptyIsRejected ==
    [][((Handled("posts_post") \/ Handled("edit_post"))
            /\ (req'.data.title = Str(<<>>) \/ req'.data.body = Str(<<>>))) =>
          /\ resp'.status = 422
          /\ StoreUnchanged
          /\ \A p \in posts' : p.title # Str(<<>>) /\ p.body # Str(<<>>)]_vars

\* C9 amended: the schema asks for strings, not for non-empty ones: a POST, or
\* a PUT to a stored id, whose title and body are strings of which one is
\* empty is accepted (201, 200) and persisted as given; a persisted post never
\* has a title or body that is not a string.
C9_EmptyIsAccepted ==
    [][((Handled("posts_post") \/ Handled("edit_post"))
            /\ HasStrings(req'.data)
            /\ (req'.data.title = Str(<<>>) \/ req'.data.body = Str(<<>>))) =>
          /\ req'.endpoint = "posts_post" =>
                /\ resp'.status = 201
                /\ Post(last_id', req'.data.title, req'.data.body) \in posts'
          /\ (req'.endpoint = "edit_post" /\ req'.id \in StoredIds(posts)) =>
                /\ resp'.status = 200
                /\ Post(req'.id, req'.data.title, req'.data.body) \in posts'
          /\ (req'.endpoint = "edit_post" /\ req'.id \notin StoredIds(posts)) =>
                /\ resp'.status = 404
                /\ StoreUnchanged
          /\ \A p \in posts' : p.title.type = "string" /\ p.body.type = "string"]_vars

C9_Witness ==
    /\ pc = "done"
    /\ req.endpoint = "posts_post"
    /\ req.data.title = Str(<<>>)
    /\ resp.status = 201
    /\ \E p \in posts : p.title = Str(<<>>) /\ <<p>> = resp.content

\* C10: a create, update or delete is one commit: when the commit fails the
\* store is as before and nothing of the write stays in the shared session for
\* a later commit to write; when it succeeds the whole write is in the store;
\* the store changes in no other way.
C10_OneAtomicCommit ==
    [][(pc = "idle" /\ pc' = "done") =>
          /\ commit_result' = "failed" =>
                /\ posts' = posts
                /\ last_id' = last_id
                /\ pending' = <<>>
                /\ resp'.status = 500
          /\ commit_result' = "ok" =>
                /\ pending' = <<>>
                /\ req'.endpoint = "posts_post" =>
                      /\ last_id' \notin StoredIds(posts)
                      /\ posts' = posts \cup
                            {Post(last_id', req'.data.title, req'.data.body)}
                /\ req'.endpoint = "edit_post" =>
                      posts' = {p \in posts : p.id # req'.id} \cup
                            {Post(req'.id, req'.data.title, req'.data.body)}
                /\ req'.endpoint = "post_delete" =>
                      posts' = {p \in posts : p.id # req'.id}
          /\ commit_result' = "none" => StoreUnchanged]_vars

C10_Witness ==
    /\ pc = "done"
    /\ req.endpoint = "edit_post"
    /\ commit_result = "failed"
    /\ resp.status = 500
    /\ \E p \in posts : p.id = req.id /\ p.title # req.data.title /\ p.body # req.data.body

====
